---- MODULE Spec2Model ----
\* Model of the forecast evaluation script
\*   src/src/2. BigData/2. Models/3. advanced/3. evaluate.py
\* from the point where the configuration, the test frame and the predictions
\* are in memory (line 93) to the end of the script.
\* More specifications share the module: RunsSpec runs the whole script,
\* from the reading of the configuration on, again and again on one report
\* path; RacySpec adds a process that reads the report; BackendSpec is the
\* FastAPI backend of
\*   src/src/2. BigData/3. Deployment/1-local/backend/main.py
\* SplitSpec is the train/test split of evaluate.py beside that of
\*   src/src/2. BigData/2. Models/2. production_ready/1. train.py
\* FrontendSpec is the Streamlit page of
\*   src/src/2. BigData/3. Deployment/2-docker/frontend/app.py
\* and FetchSpec is one run of a fetch script,
\*   src/src/2. BigData/2. Models/3. advanced/0. fetch_data.py
\*   src/src/2. BigData/2. Models/2. production_ready/0. fetch_data.py
\*
\* Numbers.  A float is modelled as an exact rational [num, den] in lowest
\* terms with den >= 0; den = 0 stands for the non-finite floats (0/0 is NaN,
\* n/0 with n # 0 is +-inf).  np.sqrt is the only operation that leaves the
\* rationals: it is modelled as the root rounded down to the grid 1/SqrtScale.
\* A metric value is either such a number (null = FALSE) or Python's None.
EXTENDS Integers, Sequences, FiniteSets, TLC

\* ------------------------------------------------------------------ bounds
MaxT == 2
MaxVal == 1
SqrtScale == 100

Timestamps == 1..MaxT
ActualVals == 0..MaxVal
PredVals == {0, MaxVal + 1}

ProductOrder == <<"A", "B", "C", "D", "E">>

MetricNames == {"RMSE", "MAE", "MAPE", "MASE"}
UnknownMetric == "SMAPE"
ConfigNames == MetricNames \cup {UnknownMetric}

\* ----------------------------------------------------------------- numbers
Abs(x) == IF x < 0 THEN -x ELSE x

RECURSIVE GCD(_, _)
GCD(a, b) == IF b = 0 THEN a ELSE GCD(b, a % b)

Sign(x) == IF x > 0 THEN 1 ELSE IF x < 0 THEN -1 ELSE 0

Num(n, d) ==
  IF d = 0 THEN [null |-> FALSE, num |-> Sign(n), den |-> 0]
  ELSE LET g == GCD(Abs(n), Abs(d))
           s == Sign(d)
       IN [null |-> FALSE, num |-> (s * n) \div g, den |-> (s * d) \div g]

None == [null |-> TRUE, num |-> 0, den |-> 1]

FromInt(i) == Num(i, 1)
RatAdd(a, b) == Num(a.num * b.den + b.num * a.den, a.den * b.den)
RatSub(a, b) == Num(a.num * b.den - b.num * a.den, a.den * b.den)
RatMul(a, b) == Num(a.num * b.num, a.den * b.den)
RatDiv(a, b) == Num(a.num * b.den, a.den * b.num)
RatAbs(a) == [null |-> FALSE, num |-> Abs(a.num), den |-> a.den]
RatLess(a, b) == a.num * b.den < b.num * a.den
RatLeq(a, b) == a.num * b.den <= b.num * a.den
IsFinite(a) == a.den > 0
\* x > 0 on floats: False for NaN, True for +inf
Positive(a) == a.num > 0

\* largest k with k * k <= n, by bisection on lo <= k < hi
RECURSIVE ISqrtBetween(_, _, _)
ISqrtBetween(n, lo, hi) ==
  IF hi - lo <= 1 THEN lo
  ELSE LET mid == (lo + hi) \div 2
       IN IF mid <= n \div mid THEN ISqrtBetween(n, mid, hi)
          ELSE ISqrtBetween(n, lo, mid)

ISqrt(n) == ISqrtBetween(n, 0, n + 1)

\* np.sqrt of a non-negative float; NaN and inf are their own roots
Sqrt(q) ==
  IF q.den = 0 THEN q
  ELSE Num(ISqrt((q.num * SqrtScale * SqrtScale) \div q.den), SqrtScale)

RECURSIVE SumSeq(_)
SumSeq(s) == IF s = <<>> THEN FromInt(0) ELSE RatAdd(s[1], SumSeq(Tail(s)))

\* np.mean: the mean of an empty array is NaN (0/0)
Mean(s) == RatDiv(SumSeq(s), FromInt(Len(s)))

RECURSIVE MinSeq(_)
MinSeq(s) ==
  IF Len(s) = 1 THEN s[1]
  ELSE LET m == MinSeq(Tail(s)) IN IF RatLess(m, s[1]) THEN m ELSE s[1]

RECURSIVE MaxSeq(_)
MaxSeq(s) ==
  IF Len(s) = 1 THEN s[1]
  ELSE LET m == MaxSeq(Tail(s)) IN IF RatLess(s[1], m) THEN m ELSE s[1]

\* Std gone wrong: the sample deviation, ddof = 1
Std_Sample(s) ==
  LET m == Mean(s)
      dev == [i \in 1..Len(s) |-> RatMul(RatSub(s[i], m), RatSub(s[i], m))]
  IN Sqrt(RatDiv(SumSeq(dev), FromInt(Len(s) - 1)))

\* np.std with the default ddof = 0: sqrt(mean(abs(x - x.mean()) ** 2))
Std(s) ==
  LET m == Mean(s)
      dev == [i \in 1..Len(s) |-> RatMul(RatSub(s[i], m), RatSub(s[i], m))]
  IN Sqrt(Mean(dev))

\* ------------------------------------------------------------ dictionaries
EmptyDict == [k \in {} |-> None]
Put(d, k, v) == [x \in DOMAIN d \cup {k} |-> IF x = k THEN v ELSE d[x]]

\* ------------------------------------------------------------------ frames
\* A frame is a function from its index to its value; test_df and predictions
\* are indexed by <<item, timestamp>>.
RECURSIVE SortedSeq(_)
SortedSeq(S) ==
  IF S = {} THEN <<>>
  ELSE LET m == CHOOSE x \in S : \A y \in S : x <= y
       IN <<m>> \o SortedSeq(S \ {m})

ItemsOf(df) == {k[1] : k \in DOMAIN df}
TimesOf(df, p) == {k[2] : k \in {x \in DOMAIN df : x[1] = p}}

\* Slice gone wrong: the rows of every item, not of item p alone
Slice_AllRows(df, p) ==
  [t \in {k[2] : k \in DOMAIN df} |->
     df[<<CHOOSE q \in ItemsOf(df) : <<q, t>> \in DOMAIN df, t>>]]

\* test_df[test_df[id_column] == product].set_index(date_column)[[target_column]]
\* and predictions.loc[product]
Slice(df, p) == [t \in TimesOf(df, p) |-> df[<<p, t>>]]

FirstTime(df, p) == CHOOSE t \in TimesOf(df, p) : \A u \in TimesOf(df, p) : t <= u

Index(seq, x) == CHOOSE i \in 1..Len(seq) : seq[i] = x

\* test_df[id_column].unique(): the items in order of first appearance in the
\* frame, which is sorted by date
RECURSIVE UniqueItems(_, _)
UniqueItems(df, S) ==
  IF S = {} THEN <<>>
  ELSE LET first == CHOOSE p \in S : \A q \in S :
                      \/ FirstTime(df, p) < FirstTime(df, q)
                      \/ /\ FirstTime(df, p) = FirstTime(df, q)
                         /\ Index(ProductOrder, p) <= Index(ProductOrder, q)
       IN <<first>> \o UniqueItems(df, S \ {first})

\* --------------------------------------------------------------- the state
VARIABLES
  metrics_to_calculate,  \* config['evaluation']['metrics'], line 37, as a set
  test_df,               \* the actuals of the test window, lines 69 and 174
  predictions,           \* predictor.predict(train_data), its 'mean' column
  pc,                    \* "scoring", "save", "plots", "done"
  todo,                  \* the items the loop at line 169 has yet to visit
  product,               \* the loop variable of line 169
  call,                  \* the last call of calculate_metrics: how it ended,
                         \* with its locals merged and metrics
  all_metrics,           \* line 167
  evaluation_results,    \* line 159
  report_file,           \* the file at evaluation_report_file
  log,                   \* the warnings logged, as <<item, message>>
  \* evaluate.py run again and again on one report path
  config,                \* config/config.toml as the run finds it, line 27
  files,                 \* the model directory, the data file and what the
                         \* predictor forecasts from it
  error,                 \* the exception that ended the run, "" if none
  loaded,                \* what the run has loaded so far
  evaluated_at,          \* datetime.now() at line 160, as the run's number
  disk,                  \* the bytes at evaluation_report_file, as the
                         \* members of the document written so far
  history,               \* the runs that reached line 240, oldest first
  reader,                \* what another process last read at the report path
  runs,                  \* the number of runs started
  written,               \* the members json.dump has written, line 241
  \* backend/main.py
  predictor,             \* the global of line 27
  train_data,            \* the global of line 28
  startup,               \* "pending", "failed", "done"
  backend_dir,           \* the backend's directory: model, data file, forecast
  response,              \* the last response sent
  predict_calls,         \* the calls of predictor.predict made at line 142
  startup_error,         \* the exception the startup handler raised, "" if none
  loads,                 \* the calls of TimeSeriesPredictor.load, line 71, and
                         \* of pd.read_csv, line 75
  \* the train/test split of evaluate.py and of production_ready/1. train.py
  dataset,               \* the rows of the data file, by <<item, date>>
  test_size_days,        \* config['training']['test_size_days']
  eval_split,            \* train_df and test_df of evaluate.py, lines 69-70
  train_split,           \* train_df and test_df of 1. train.py, lines 77-78
  \* frontend/app.py
  selected,              \* the product of the selectbox, line 156
  reply,                 \* what requests.get did, line 45
  result,                \* what get_predictions returned, line 166
  st_messages,           \* what the page shows: error, warning, success
  escaped,               \* the exception that left get_predictions, "" if none
  \* 0. fetch_data.py, advanced and production_ready
  fetch_config,          \* which script runs, dry_run, cache_max_age_days
  fs,                    \* the output file and the data quality report
  bigquery,              \* what client.query(query).to_dataframe() does
  fetch_pc,              \* where the script is
  queries,               \* the queries executed, line 101
  fetch_error,           \* the exception that ended the script and its message
  fetched                \* df, line 101

evalVars == <<metrics_to_calculate, test_df, predictions, pc, todo, product, call,
              all_metrics, evaluation_results, report_file, log>>
runVars == <<config, files, error, loaded, evaluated_at, disk, history, reader, runs,
             written>>
backendVars == <<predictor, train_data, startup, backend_dir, response, predict_calls,
                 startup_error, loads>>

splitVars == <<dataset, test_size_days, eval_split, train_split>>
frontendVars == <<selected, reply, result, st_messages, escaped>>
fetchVars == <<fetch_config, fs, bigquery, fetch_pc, queries, fetch_error, fetched>>

vars == <<evalVars, runVars, backendVars, splitVars, frontendVars, fetchVars>>

\* ------------------------------------------------------- calculate_metrics
\* Merge gone wrong: the rows paired by position instead of by timestamp
Merge_ByPosition(actuals, preds) ==
  LET ta == SortedSeq(DOMAIN actuals)
      tp == SortedSeq(DOMAIN preds)
      n == IF Len(ta) < Len(tp) THEN Len(ta) ELSE Len(tp)
  IN [t \in {ta[i] : i \in 1..n} |->
        [actual |-> actuals[t], mean |-> preds[tp[Index(ta, t)]]]]

\* lines 99-104: actuals.merge(predictions, left_index=True, right_index=True),
\* an inner join on the timestamp index
Merge(actuals, preds) ==
  [t \in DOMAIN actuals \cap DOMAIN preds |->
     [actual |-> actuals[t], mean |-> preds[t]]]

\* lines 112-118: the two columns of merged, in index order.  The frames hold
\* no NaN, so the mask of line 116 keeps every row.
YTrue(merged) ==
  LET ts == SortedSeq(DOMAIN merged)
  IN [i \in 1..Len(ts) |-> merged[ts[i]].actual]

YPred(merged) ==
  LET ts == SortedSeq(DOMAIN merged)
  IN [i \in 1..Len(ts) |-> merged[ts[i]].mean]

\* CalcRMSE gone wrong: the errors are not squared
CalcRMSE_NoSquare(y_true, y_pred) ==
  Sqrt(Mean([i \in 1..Len(y_true) |-> FromInt(Abs(y_true[i] - y_pred[i]))]))

\* line 128: float(np.sqrt(np.mean((y_true - y_pred) ** 2)))
CalcRMSE(y_true, y_pred) ==
  Sqrt(Mean([i \in 1..Len(y_true) |->
               FromInt((y_true[i] - y_pred[i]) * (y_true[i] - y_pred[i]))]))

\* CalcMAE gone wrong: np.abs is left out
CalcMAE_Signed(y_true, y_pred) ==
  Mean([i \in 1..Len(y_true) |-> FromInt(y_true[i] - y_pred[i])])

\* line 132: float(np.mean(np.abs(y_true - y_pred)))
CalcMAE(y_true, y_pred) ==
  Mean([i \in 1..Len(y_true) |-> FromInt(Abs(y_true[i] - y_pred[i]))])

\* line 137: the positions where y_true != 0, in order
RECURSIVE NonZero(_, _)
NonZero(y_true, i) ==
  IF i > Len(y_true) THEN <<>>
  ELSE (IF y_true[i] # 0 THEN <<i>> ELSE <<>>) \o NonZero(y_true, i + 1)

\* CalcMAPE gone wrong: the mean is taken over all the rows
CalcMAPE_AllRows(y_true, y_pred) ==
  LET nz == NonZero(y_true, 1)
  IN IF Len(nz) > 0
     THEN RatMul(RatDiv(SumSeq([k \in 1..Len(nz) |->
                           RatAbs(Num(y_true[nz[k]] - y_pred[nz[k]], y_true[nz[k]]))]),
                        FromInt(Len(y_true))),
                 FromInt(100))
     ELSE None

\* lines 137-141
CalcMAPE(y_true, y_pred) ==
  LET nz == NonZero(y_true, 1)
  IN IF Len(nz) > 0
     THEN RatMul(Mean([k \in 1..Len(nz) |->
                         RatAbs(Num(y_true[nz[k]] - y_pred[nz[k]], y_true[nz[k]]))]),
                 FromInt(100))
     ELSE None

\* line 146: np.mean(np.abs(y_true.diff().dropna())), NaN for a single row
NaiveError(y_true) ==
  Mean([i \in 1..(Len(y_true) - 1) |-> FromInt(Abs(y_true[i + 1] - y_true[i]))])

\* lines 144-150 on the dictionary built so far: the new dictionary, or the
\* KeyError of metrics['MAE'] at line 148
CalcMASE(metrics, y_true) ==
  LET naive_error == NaiveError(y_true)
  IN IF Positive(naive_error)
     THEN IF "MAE" \in DOMAIN metrics
          THEN [raised |-> FALSE,
                metrics |-> Put(metrics, "MASE", RatDiv(metrics["MAE"], naive_error))]
          ELSE [raised |-> TRUE, metrics |-> metrics]
     ELSE [raised |-> FALSE, metrics |-> Put(metrics, "MASE", None)]

\* calculate_metrics gone the way C1 words it: without an aligned pair the
\* result holds every requested metric as None
calculate_metrics_AllNull(requested, actuals, preds, product_name) ==
  LET merged == Merge(actuals, preds)
      y_true == YTrue(merged)
      y_pred == YPred(merged)
      m1 == IF "RMSE" \in requested
            THEN Put(EmptyDict, "RMSE", CalcRMSE(y_true, y_pred)) ELSE EmptyDict
      m2 == IF "MAE" \in requested
            THEN Put(m1, "MAE", CalcMAE(y_true, y_pred)) ELSE m1
      m3 == IF "MAPE" \in requested
            THEN Put(m2, "MAPE", CalcMAPE(y_true, y_pred)) ELSE m2
      m4 == IF "MASE" \in requested
            THEN CalcMASE(m3, y_true) ELSE [raised |-> FALSE, metrics |-> m3]
  IN IF Len(y_true) = 0
     THEN [status |-> "returned", product |-> product_name, merged |-> merged,
           metrics |-> [m \in requested \cap MetricNames |-> None]]
     ELSE [status |-> IF m4.raised THEN "KeyError" ELSE "returned",
           product |-> product_name, merged |-> merged, metrics |-> m4.metrics]

\* lines 96-152.  status is "returned" (line 152), "None" (line 122) or
\* "KeyError" (line 148); merged and metrics are the locals when the call ended.
\* AutoGluon's predictions always carry the 'mean' column tested at line 106.
calculate_metrics(requested, actuals, preds, product_name) ==
  LET merged == Merge(actuals, preds)
      y_true == YTrue(merged)
      y_pred == YPred(merged)
      m1 == IF "RMSE" \in requested
            THEN Put(EmptyDict, "RMSE", CalcRMSE(y_true, y_pred)) ELSE EmptyDict
      m2 == IF "MAE" \in requested
            THEN Put(m1, "MAE", CalcMAE(y_true, y_pred)) ELSE m1
      m3 == IF "MAPE" \in requested
            THEN Put(m2, "MAPE", CalcMAPE(y_true, y_pred)) ELSE m2
      m4 == IF "MASE" \in requested
            THEN CalcMASE(m3, y_true) ELSE [raised |-> FALSE, metrics |-> m3]
  IN IF Len(y_true) = 0
     THEN [status |-> "None", product |-> product_name,
           merged |-> merged, metrics |-> EmptyDict]
     ELSE [status |-> IF m4.raised THEN "KeyError" ELSE "returned",
           product |-> product_name, merged |-> merged, metrics |-> m4.metrics]

\* ---------------------------------------------------------------- messages
NotFound == "Predictions not found"
NoValidData == "No valid data"
CouldNot == "Could not calculate metrics"

NoCall == [status |-> "none", product |-> "", merged |-> EmptyDict, metrics |-> EmptyDict]

\* ------------------------------------------------------------- aggregation
\* lines 206-215: the entry of one metric of the overall report
Overall(values) ==
  [mean |-> Mean(values), std |-> Std(values),
   min |-> MinSeq(values), max |-> MaxSeq(values)]

\* lines 204-215: only a metric with a non-empty list gets an entry
OverallMetrics(lists) ==
  [m \in {k \in DOMAIN lists : Len(lists[k]) > 0} |-> Overall(lists[m])]

\* AppendAll gone wrong: None is appended as 0
RECURSIVE AppendAll_NoneAsZero(_, _, _)
AppendAll_NoneAsZero(lists, metrics, names) ==
  IF names = {} THEN lists
  ELSE LET m == CHOOSE x \in names : TRUE
           next == [lists EXCEPT ![m] = Append(@, IF metrics[m].null THEN FromInt(0)
                                                  ELSE metrics[m])]
       IN AppendAll_NoneAsZero(next, metrics, names \ {m})

\* lines 185-190: every value that is not None is appended to its list
RECURSIVE AppendAll(_, _, _)
AppendAll(lists, metrics, names) ==
  IF names = {} THEN lists
  ELSE LET m == CHOOSE x \in names : TRUE
           next == IF metrics[m].null THEN lists
                   ELSE [lists EXCEPT ![m] = Append(@, metrics[m])]
       IN AppendAll(next, metrics, names \ {m})

\* ------------------------------------------------------------------ inputs
FramesOn(keys, vals) == UNION {[K -> vals] : K \in SUBSET keys}

Restrict(df, items) == [k \in {x \in DOMAIN df : x[1] \in items} |-> df[k]]

\* one item over the whole window
OneItemInputs ==
  FramesOn({"A"} \X Timestamps, ActualVals) \X FramesOn({"A"} \X Timestamps, PredVals)

\* two items over a window of one date
TwoItemInputs ==
  FramesOn({"A", "B"} \X {1}, ActualVals) \X FramesOn({"A", "B"} \X {1}, PredVals)

\* the end-to-end scenarios of the specification (items A, B and C), an item D
\* the predictor does not know and an item E forecast outside the test window
ScenarioActuals ==
  (<<"A", 1>> :> 10) @@ (<<"A", 2>> :> 12) @@ (<<"A", 3>> :> 9) @@
  (<<"B", 1>> :> 0) @@ (<<"B", 2>> :> 0) @@
  (<<"C", 1>> :> 2) @@ (<<"C", 2>> :> 4) @@ (<<"C", 3>> :> 3) @@
  (<<"D", 0>> :> 7) @@ (<<"E", 0>> :> 5)

ScenarioPreds ==
  (<<"A", 1>> :> 11) @@ (<<"A", 2>> :> 11) @@ (<<"A", 3>> :> 10) @@
  (<<"B", 1>> :> 5) @@ (<<"B", 2>> :> 3) @@
  (<<"C", 2>> :> 3) @@ (<<"C", 3>> :> 3) @@ (<<"C", 4>> :> 5) @@
  (<<"E", 4>> :> 5)

ScenarioInputs ==
  {<<Restrict(ScenarioActuals, S), Restrict(ScenarioPreds, S)>> :
     S \in {{"A"}, {"B"}, {"C"}, {"A", "B", "C", "D", "E"}}}

\* the configured metric names with the frames they are run on: a name the
\* code does not know is configured in the runs over two items and in the
\* scenarios
Runs ==
  ((SUBSET MetricNames) \X OneItemInputs) \cup
  ((SUBSET ConfigNames) \X (TwoItemInputs \cup ScenarioInputs))

\* ------------------------------------------------------------------- steps
NoConfig == [fields |-> {}, metrics |-> {}, test_size_days |-> 0]
NoFiles == [model |-> FALSE, data |-> FALSE, df |-> EmptyDict, forecast |-> EmptyDict]
NoRead == [read |-> FALSE, document |-> <<>>]

\* a single run from line 93 on: nothing of the runs before it, no reader
RunsIdle ==
  /\ config = NoConfig
  /\ files = NoFiles
  /\ error = ""
  /\ loaded = {}
  /\ evaluated_at = 0
  /\ disk = <<>>
  /\ history = <<>>
  /\ reader = NoRead
  /\ runs = 0
  /\ written = 0

NoObject == [none |-> TRUE, items |-> {}]
NoDir == [model_path |-> FALSE, data_path |-> FALSE, model_loads |-> FALSE,
          csv_parses |-> FALSE, items |-> {}, forecast |-> EmptyDict]
NoResponse == [path |-> "", item |-> "", status_code |-> 0, body |-> EmptyDict]
NoLoads == [model |-> 0, data |-> 0]

\* no backend
BackendIdle ==
  /\ predictor = NoObject
  /\ train_data = NoObject
  /\ startup = "pending"
  /\ backend_dir = NoDir
  /\ response = NoResponse
  /\ predict_calls = 0
  /\ startup_error = ""
  /\ loads = NoLoads

NoSplit == [done |-> FALSE, train_df |-> EmptyDict, test_df |-> EmptyDict]

\* no split in sight
SplitIdle ==
  /\ dataset = EmptyDict
  /\ test_size_days = 0
  /\ eval_split = NoSplit
  /\ train_split = NoSplit

NoReply == [kind |-> "", status_code |-> 0, text |-> <<>>, class |-> ""]
NoneResult == [none |-> TRUE, value |-> EmptyDict]

\* no frontend
FrontendIdle ==
  /\ selected = ""
  /\ reply = NoReply
  /\ result = NoneResult
  /\ st_messages = {}
  /\ escaped = ""

NoError == <<"", "">>
NoFile == [exists |-> FALSE, age |-> 0, content |-> <<>>]
NoFetchConfig == [script |-> "", dry_run_key |-> FALSE, dry_run |-> FALSE,
                  cache_key |-> FALSE, cache_max_age_days |-> 0]

\* no fetch script
FetchIdle ==
  /\ fetch_config = NoFetchConfig
  /\ fs = [output |-> NoFile, report |-> NoFile]
  /\ bigquery = [raises |-> "", rows |-> <<>>]
  /\ fetch_pc = "off"
  /\ queries = 0
  /\ fetch_error = NoError
  /\ fetched = <<>>

\* the state at line 167
Init ==
  /\ \E run \in Runs :
       /\ metrics_to_calculate = run[1]
       /\ test_df = run[2][1]
       /\ predictions = run[2][2]
  /\ pc = "scoring"
  /\ todo = UniqueItems(test_df, ItemsOf(test_df))
  /\ product = ""
  /\ call = NoCall
  /\ all_metrics = [m \in metrics_to_calculate |-> <<>>]
  /\ evaluation_results = [metrics_calculated |-> metrics_to_calculate,
                           per_product_metrics |-> EmptyDict,
                           overall_metrics |-> EmptyDict]
  /\ report_file = [exists |-> FALSE, content |-> EmptyDict]
  /\ log = {}
  /\ RunsIdle
  /\ BackendIdle
  /\ SplitIdle
  /\ FrontendIdle
  /\ FetchIdle

\* lines 169-197: one pass of the loop body
ScoreProduct ==
  /\ pc = "scoring"
  /\ todo # <<>>
  /\ product' = Head(todo)
  /\ todo' = Tail(todo)
  /\ LET p == Head(todo)
         r == calculate_metrics(metrics_to_calculate,
                                Slice(test_df, p), Slice(predictions, p), p)
     IN IF p \notin ItemsOf(predictions)
        THEN \* line 179 raises KeyError, caught at line 196
             /\ log' = log \cup {<<p, NotFound>>}
             /\ UNCHANGED <<call, all_metrics, evaluation_results>>
        ELSE /\ call' = r
             /\ IF r.status = "KeyError"
                THEN \* line 148 raises KeyError, caught at line 196
                     /\ log' = log \cup {<<p, NotFound>>}
                     /\ UNCHANGED <<all_metrics, evaluation_results>>
                ELSE IF r.status = "returned" /\ DOMAIN r.metrics # {}
                THEN \* lines 185-192
                     /\ all_metrics' = AppendAll(all_metrics, r.metrics, DOMAIN r.metrics)
                     /\ evaluation_results' =
                          [evaluation_results EXCEPT
                             !.per_product_metrics = Put(@, p, r.metrics)]
                     /\ UNCHANGED log
                ELSE \* line 194: None, or a dictionary with no entry
                     /\ log' = log \cup {<<p, CouldNot>>} \cup
                               (IF r.status = "None" THEN {<<p, NoValidData>>} ELSE {})
                     /\ UNCHANGED <<all_metrics, evaluation_results>>
  /\ UNCHANGED <<metrics_to_calculate, test_df, predictions, pc, report_file>>
  /\ UNCHANGED <<runVars, backendVars, splitVars, frontendVars, fetchVars>>

\* Aggregate gone wrong: it does not wait for the loop to end
Aggregate_Early ==
  /\ pc = "scoring"
  /\ evaluation_results' =
       [evaluation_results EXCEPT !.overall_metrics = OverallMetrics(all_metrics)]
  /\ pc' = "save"
  /\ UNCHANGED <<metrics_to_calculate, test_df, predictions, todo, product, call,
                 all_metrics, report_file, log>>
  /\ UNCHANGED <<runVars, backendVars, splitVars, frontendVars, fetchVars>>

\* lines 204-215, once the loop has visited every item
Aggregate ==
  /\ pc = "scoring"
  /\ todo = <<>>
  /\ evaluation_results' =
       [evaluation_results EXCEPT !.overall_metrics = OverallMetrics(all_metrics)]
  /\ pc' = "save"
  /\ UNCHANGED <<metrics_to_calculate, test_df, predictions, todo, product, call,
                 all_metrics, report_file, log>>
  /\ UNCHANGED <<runVars, backendVars, splitVars, frontendVars, fetchVars>>

\* lines 239-241
SaveReport ==
  /\ pc = "save"
  /\ report_file' = [exists |-> TRUE, content |-> evaluation_results]
  /\ pc' = "plots"
  /\ UNCHANGED <<metrics_to_calculate, test_df, predictions, todo, product, call,
                 all_metrics, evaluation_results, log>>
  /\ UNCHANGED <<runVars, backendVars, splitVars, frontendVars, fetchVars>>

\* lines 245-272: the plots and the closing log lines
Finish ==
  /\ pc = "plots"
  /\ pc' = "done"
  /\ UNCHANGED <<metrics_to_calculate, test_df, predictions, todo, product, call,
                 all_metrics, evaluation_results, report_file, log>>
  /\ UNCHANGED <<runVars, backendVars, splitVars, frontendVars, fetchVars>>

Next == ScoreProduct \/ Aggregate \/ SaveReport \/ Finish

Spec == Init /\ [][Next]_vars

\* ======================================= evaluate.py, run after run
\* The whole script, from the reading of the configuration on, run again and
\* again as a new process on the same report path, with another process that
\* reads the report.
MaxRuns == 3

\* the keys read with [] at lines 30-36
RequiredFields ==
  {"input_file", "date_column", "target_column", "id_column", "model_path",
   "test_size_days", "evaluation_report"}
\* line 37 reads config['evaluation'] with [] and 'metrics' with .get
AllFields == RequiredFields \cup {"evaluation", "metrics"}
DefaultMetrics == {"MASE", "RMSE", "MAE"}

\* MissingFields gone wrong: every key read with a default
MissingFields_None(cfg) == {}

\* the keys whose reading raises KeyError, lines 30-37
MissingFields(cfg) == (RequiredFields \cup {"evaluation"}) \ cfg.fields

\* line 37
ConfiguredMetrics(cfg) ==
  IF "metrics" \in cfg.fields THEN cfg.metrics ELSE DefaultMetrics

\* lines 66-67: all_dates[-test_size_days:], the whole of it for 0
LastDates(df, n) ==
  LET all_dates == SortedSeq({k[2] : k \in DOMAIN df})
      from == IF n = 0 \/ n >= Len(all_dates) THEN 1 ELSE Len(all_dates) - n + 1
  IN {all_dates[i] : i \in from..Len(all_dates)}

\* line 69
TestFrame(df, n) ==
  [k \in {x \in DOMAIN df : x[2] \in LastDates(df, n)} |-> df[k]]

\* NewResults gone wrong: the entries of the report on disk are taken over
NewResults_Merged(requested) ==
  [metrics_calculated |-> requested,
   per_product_metrics |->
     IF history = <<>> THEN EmptyDict
     ELSE history[Len(history)].results.per_product_metrics,
   overall_metrics |-> EmptyDict]

\* lines 159-165
NewResults(requested) ==
  [metrics_calculated |-> requested,
   per_product_metrics |-> EmptyDict,
   overall_metrics |-> EmptyDict]

\* json.dump of a metric value: None is written null, a float by its repr
ToJson(v) ==
  IF v.null THEN [json |-> "null", num |-> 0, den |-> 1]
  ELSE [json |-> "number", num |-> v.num, den |-> v.den]

\* lines 159-165 and 241: the document json.dump writes, member by member in
\* the order of the dictionary
Document(results, at, cfg) ==
  << <<"evaluated_at", at>>,
     <<"test_size_days", cfg.test_size_days>>,
     <<"metrics_calculated", results.metrics_calculated>>,
     <<"per_product_metrics",
       [p \in DOMAIN results.per_product_metrics |->
          [m \in DOMAIN results.per_product_metrics[p] |->
             ToJson(results.per_product_metrics[p][m])]]>>,
     <<"overall_metrics",
       [m \in DOMAIN results.overall_metrics |->
          [k \in {"mean", "std", "min", "max"} |->
             ToJson(results.overall_metrics[m][k])]]>> >>

\* open gone wrong: mode 'a'
Truncate_Append(bytes) == bytes

\* line 240: open(evaluation_report_file, 'w')
Truncate(bytes) == <<>>

\* the runs: three complete ones, and the first of them with a key of the
\* configuration missing, with a model that does not load, with no data file
FullConfig(metrics, n) ==
  [fields |-> AllFields, metrics |-> metrics, test_size_days |-> n]

GoodFiles(items) ==
  [model |-> TRUE, data |-> TRUE,
   df |-> Restrict(ScenarioActuals, items),
   forecast |-> Restrict(ScenarioPreds, items)]

GoodRuns ==
  {<<FullConfig({"RMSE", "MAE"}, 3), GoodFiles({"A", "B", "C", "D", "E"})>>,
   <<FullConfig({"MAPE", "MAE"}, 3), GoodFiles({"A", "B"})>>,
   <<[FullConfig({}, 4) EXCEPT !.fields = AllFields \ {"metrics"}],
     GoodFiles({"A", "C", "D"})>>}

BadRuns ==
  {<<[FullConfig({"RMSE", "MAE"}, 3) EXCEPT !.fields = AllFields \ {f}],
     GoodFiles({"A", "B"})>> : f \in RequiredFields \cup {"evaluation"}}
  \cup {<<FullConfig({"RMSE", "MAE"}, 3), [GoodFiles({"A", "B"}) EXCEPT !.model = FALSE]>>,
        <<FullConfig({"RMSE", "MAE"}, 3), [GoodFiles({"A", "B"}) EXCEPT !.data = FALSE]>>}

RunChoices == GoodRuns \cup BadRuns

\* a process before its line 24
Fresh ==
  /\ metrics_to_calculate' = {}
  /\ test_df' = EmptyDict
  /\ predictions' = EmptyDict
  /\ todo' = <<>>
  /\ product' = ""
  /\ call' = NoCall
  /\ all_metrics' = EmptyDict
  /\ evaluation_results' = [metrics_calculated |-> {},
                            per_product_metrics |-> EmptyDict,
                            overall_metrics |-> EmptyDict]
  /\ log' = {}
  /\ error' = ""
  /\ loaded' = {}
  /\ evaluated_at' = 0

RunsInit ==
  /\ \E c \in RunChoices : config = c[1] /\ files = c[2]
  /\ runs = 1
  /\ pc = "config"
  /\ metrics_to_calculate = {}
  /\ test_df = EmptyDict
  /\ predictions = EmptyDict
  /\ todo = <<>>
  /\ product = ""
  /\ call = NoCall
  /\ all_metrics = EmptyDict
  /\ evaluation_results = [metrics_calculated |-> {},
                           per_product_metrics |-> EmptyDict,
                           overall_metrics |-> EmptyDict]
  /\ report_file = [exists |-> FALSE, content |-> EmptyDict]
  /\ log = {}
  /\ error = ""
  /\ loaded = {}
  /\ evaluated_at = 0
  /\ disk = <<>>
  /\ history = <<>>
  /\ reader = NoRead
  /\ written = 0
  /\ BackendIdle
  /\ SplitIdle
  /\ FrontendIdle
  /\ FetchIdle

\* lines 24-38
LoadConfig ==
  /\ pc = "config"
  /\ IF MissingFields(config) # {}
     THEN /\ error' = "KeyError"
          /\ pc' = "aborted"
          /\ UNCHANGED metrics_to_calculate
     ELSE /\ metrics_to_calculate' = ConfiguredMetrics(config)
          /\ pc' = "model"
          /\ UNCHANGED error
  /\ UNCHANGED <<test_df, predictions, todo, product, call, all_metrics,
                 evaluation_results, report_file, log, config, files, loaded,
                 evaluated_at, disk, history, reader, runs, written, backendVars, splitVars, frontendVars, fetchVars>>

\* lines 40-48
LoadModel ==
  /\ pc = "model"
  /\ IF files.model
     THEN /\ loaded' = loaded \cup {"model"}
          /\ pc' = "data"
          /\ UNCHANGED error
     ELSE /\ error' = "model"
          /\ pc' = "aborted"
          /\ UNCHANGED loaded
  /\ UNCHANGED <<metrics_to_calculate, test_df, predictions, todo, product, call,
                 all_metrics, evaluation_results, report_file, log, config, files,
                 evaluated_at, disk, history, reader, runs, written, backendVars, splitVars, frontendVars, fetchVars>>

\* lines 50-91 and 159-167: the data, the split, the forecast, the empty report
LoadData ==
  /\ pc = "data"
  /\ IF ~files.data
     THEN \* line 54
          /\ error' = "FileNotFoundError"
          /\ pc' = "aborted"
          /\ UNCHANGED <<test_df, predictions, todo, all_metrics, evaluation_results,
                         loaded, evaluated_at>>
     ELSE /\ test_df' = TestFrame(files.df, config.test_size_days)
          /\ predictions' = files.forecast
          /\ todo' = UniqueItems(test_df', ItemsOf(test_df'))
          /\ loaded' = loaded \cup {"data", "predictions"}
          /\ evaluated_at' = runs
          /\ evaluation_results' = NewResults(metrics_to_calculate)
          /\ all_metrics' = [m \in metrics_to_calculate |-> <<>>]
          /\ pc' = "scoring"
          /\ UNCHANGED error
  /\ UNCHANGED <<metrics_to_calculate, product, call, report_file, log, config,
                 files, disk, history, reader, runs, written, backendVars, splitVars, frontendVars, fetchVars>>

\* line 240: the file is opened for writing and is empty from then on
OpenReport ==
  /\ pc = "save"
  /\ disk' = Truncate(disk)
  /\ history' = Append(history,
                       [run |-> runs, inputs |-> <<config, files>>,
                        results |-> evaluation_results,
                        document |-> Document(evaluation_results, evaluated_at, config)])
  /\ written' = 0
  /\ pc' = "writing"
  /\ UNCHANGED <<metrics_to_calculate, test_df, predictions, todo, product, call,
                 all_metrics, evaluation_results, report_file, log>>
  /\ UNCHANGED <<config, files, error, loaded, evaluated_at, reader, runs, backendVars, splitVars, frontendVars, fetchVars>>

\* line 241: json.dump writes the document piece by piece
DumpMember ==
  /\ pc = "writing"
  /\ LET document == Document(evaluation_results, evaluated_at, config)
     IN /\ written < Len(document)
        /\ disk' = Append(disk, document[written + 1])
        /\ written' = written + 1
  /\ UNCHANGED <<evalVars>>
  /\ UNCHANGED <<config, files, error, loaded, evaluated_at, history, reader, runs,
                 backendVars, splitVars, frontendVars, fetchVars>>

\* lines 241-243: the document is out, the file is closed
CloseReport ==
  /\ pc = "writing"
  /\ written = Len(Document(evaluation_results, evaluated_at, config))
  /\ pc' = "plots"
  /\ UNCHANGED <<metrics_to_calculate, test_df, predictions, todo, product, call,
                 all_metrics, evaluation_results, report_file, log>>
  /\ UNCHANGED <<runVars, backendVars, splitVars, frontendVars, fetchVars>>

\* the script is started again, as a new process
NewRun ==
  /\ pc \in {"done", "aborted"}
  /\ runs < MaxRuns
  /\ \E c \in RunChoices : config' = c[1] /\ files' = c[2]
  /\ runs' = runs + 1
  /\ pc' = "config"
  /\ Fresh
  /\ written' = 0
  /\ UNCHANGED <<report_file, disk, history, reader, backendVars, splitVars, frontendVars, fetchVars>>

\* another process reads the file at the report path, once
ReadReport ==
  /\ ~reader.read
  /\ history # <<>>
  /\ reader' = [read |-> TRUE, document |-> disk]
  /\ UNCHANGED <<evalVars>>
  /\ UNCHANGED <<config, files, error, loaded, evaluated_at, disk, history, runs,
                 written, backendVars, splitVars, frontendVars, fetchVars>>

RunsNext ==
  \/ LoadConfig
  \/ LoadModel
  \/ LoadData
  \/ ScoreProduct
  \/ Aggregate
  \/ OpenReport
  \/ DumpMember
  \/ CloseReport
  \/ Finish
  \/ NewRun

RunsSpec == RunsInit /\ [][RunsNext]_vars

RacyNext == RunsNext \/ ReadReport

RacySpec == RunsInit /\ [][RacyNext]_vars

\* The FastAPI backend.  A request may reach a handler whatever became of the
\* startup handler: the application object serves requests also where the
\* server runs no startup handler, and the guards of lines 110 and 133 are
\* there for those states.
MaxHorizon == 2
MaxCalls == 2

BackendItems == {"A", "B"}
RequestNames == BackendItems \cup {"Z"}
MeanVals == {1, 2}

\* the i-th forecast timestamp, <<day, hour>>: two a day
Stamp(i) == <<(i + 1) \div 2, 12 * ((i + 1) % 2)>>
StampLess(a, b) == a[1] < b[1] \/ (a[1] = b[1] /\ a[2] < b[2])

\* what predictor.predict can return: the same horizon for every item it
\* forecasts, a 'mean' for every row
ForecastFrames ==
  UNION {[S \X {Stamp(i) : i \in 1..h} -> MeanVals] :
           S \in SUBSET BackendItems, h \in 0..MaxHorizon}

BackendDirs ==
  [model_path : BOOLEAN, data_path : BOOLEAN, model_loads : BOOLEAN,
   csv_parses : BOOLEAN, items : SUBSET BackendItems, forecast : ForecastFrames]

\* predictions.index.get_level_values(0), line 145
ForecastItems(frame) == {k[1] : k \in DOMAIN frame}

\* the index of predictions.loc[item_name], line 152, in the order of the frame
RECURSIVE StampSeq(_)
StampSeq(S) ==
  IF S = {} THEN <<>>
  ELSE LET first == CHOOSE a \in S : \A b \in S \ {a} : StampLess(a, b)
       IN <<first>> \o StampSeq(S \ {first})

ItemIndex(frame, item_name) ==
  StampSeq({k[2] : k \in {x \in DOMAIN frame : x[1] = item_name}})

\* lines 155-162: str(index) keeps the time of day, strftime('%Y-%m-%d') keeps
\* the day alone
FormatPredictions(frame, item_name) ==
  LET index == ItemIndex(frame, item_name)
  IN [i \in 1..Len(index) |->
        [timestamp |-> index[i], date |-> index[i][1],
         mean |-> frame[<<item_name, index[i]>>]]]

\* forecast_horizon gone wrong: the seven days of the docstring
Horizon_Week(formatted_predictions) == 7

\* line 169
Horizon(formatted_predictions) == Len(formatted_predictions)

\* the guard gone wrong: 503 only when both are missing
NotReady_Both(p, t) == p.none /\ t.none

\* line 133
NotReady(p, t) == p.none \/ t.none

\* no evaluation script in sight
EvalIdle ==
  /\ metrics_to_calculate = {}
  /\ test_df = EmptyDict
  /\ predictions = EmptyDict
  /\ pc = "off"
  /\ todo = <<>>
  /\ product = ""
  /\ call = NoCall
  /\ all_metrics = EmptyDict
  /\ evaluation_results = [metrics_calculated |-> {},
                           per_product_metrics |-> EmptyDict,
                           overall_metrics |-> EmptyDict]
  /\ report_file = [exists |-> FALSE, content |-> EmptyDict]
  /\ log = {}

\* lines 26-28, in some backend directory
BackendInit ==
  /\ backend_dir \in BackendDirs
  /\ predictor = NoObject
  /\ train_data = NoObject
  /\ startup = "pending"
  /\ response = NoResponse
  /\ predict_calls = 0
  /\ startup_error = ""
  /\ loads = NoLoads
  /\ EvalIdle
  /\ RunsIdle
  /\ SplitIdle
  /\ FrontendIdle
  /\ FetchIdle

\* the messages of lines 56 and 68, and whatever lines 71-81 raise
ModelDirNotFound == "RuntimeError: Model directory not found"
DataFileNotFound == "RuntimeError: Data file not found"
LoadFailed == "Exception: load"

\* startup_event gone wrong: the predictor is loaded before the data file is
\* looked for
startup_event_LoadFirst ==
  /\ startup = "pending"
  /\ IF ~backend_dir.model_path
     THEN /\ startup' = "failed"
          /\ startup_error' = ModelDirNotFound
          /\ UNCHANGED <<predictor, train_data, loads>>
     ELSE IF ~backend_dir.model_loads
     THEN /\ startup' = "failed"
          /\ startup_error' = LoadFailed
          /\ loads' = [loads EXCEPT !.model = @ + 1]
          /\ UNCHANGED <<predictor, train_data>>
     ELSE /\ predictor' = [none |-> FALSE, items |-> {}]
          /\ IF ~backend_dir.data_path
             THEN /\ startup' = "failed"
                  /\ startup_error' = DataFileNotFound
                  /\ loads' = [loads EXCEPT !.model = @ + 1]
                  /\ UNCHANGED train_data
             ELSE /\ loads' = [model |-> loads.model + 1, data |-> loads.data + 1]
                  /\ IF backend_dir.csv_parses
                     THEN /\ train_data' = [none |-> FALSE, items |-> backend_dir.items]
                          /\ startup' = "done"
                          /\ UNCHANGED startup_error
                     ELSE /\ startup' = "failed"
                          /\ startup_error' = LoadFailed
                          /\ UNCHANGED train_data
  /\ UNCHANGED <<backend_dir, response, predict_calls, evalVars, runVars, splitVars, frontendVars, fetchVars>>

\* lines 31-85
startup_event ==
  /\ startup = "pending"
  /\ IF ~backend_dir.model_path
     THEN \* line 56
          /\ startup' = "failed"
          /\ startup_error' = ModelDirNotFound
          /\ UNCHANGED <<predictor, train_data, loads>>
     ELSE IF ~backend_dir.data_path
     THEN \* line 68
          /\ startup' = "failed"
          /\ startup_error' = DataFileNotFound
          /\ UNCHANGED <<predictor, train_data, loads>>
     ELSE IF ~backend_dir.model_loads
     THEN \* line 71 raises
          /\ startup' = "failed"
          /\ startup_error' = LoadFailed
          /\ loads' = [loads EXCEPT !.model = @ + 1]
          /\ UNCHANGED <<predictor, train_data>>
     ELSE /\ predictor' = [none |-> FALSE, items |-> {}]
          /\ loads' = [model |-> loads.model + 1, data |-> loads.data + 1]
          /\ IF backend_dir.csv_parses
             THEN /\ train_data' = [none |-> FALSE, items |-> backend_dir.items]
                  /\ startup' = "done"
                  /\ UNCHANGED startup_error
             ELSE \* lines 75-81 raise
                  /\ startup' = "failed"
                  /\ startup_error' = LoadFailed
                  /\ UNCHANGED train_data
  /\ UNCHANGED <<backend_dir, response, predict_calls, evalVars, runVars, splitVars, frontendVars, fetchVars>>

\* lines 88-98
root ==
  /\ response' = [path |-> "/", item |-> "", status_code |-> 200,
                  body |-> [status |-> "running"]]
  /\ UNCHANGED <<predictor, train_data, startup, backend_dir, predict_calls,
                 startup_error, loads, evalVars, runVars, splitVars, frontendVars, fetchVars>>

\* get_items gone wrong: the data file is read again for the request
get_items_Reload ==
  /\ train_data' = [none |-> FALSE, items |-> backend_dir.items]
  /\ response' = [path |-> "/items", item |-> "", status_code |-> 200,
                  body |-> [items |-> backend_dir.items]]
  /\ UNCHANGED <<predictor, startup, backend_dir, predict_calls, startup_error, loads,
                 evalVars, runVars, splitVars, frontendVars, fetchVars>>

\* lines 101-114
get_items ==
  /\ response' =
       IF train_data.none
       THEN [path |-> "/items", item |-> "", status_code |-> 503,
             body |-> [detail |-> "Model not loaded yet"]]
       ELSE [path |-> "/items", item |-> "", status_code |-> 200,
             body |-> [items |-> train_data.items]]
  /\ UNCHANGED <<predictor, train_data, startup, backend_dir, predict_calls,
                 startup_error, loads, evalVars, runVars, splitVars, frontendVars, fetchVars>>

\* lines 117-170
predict(item_name) ==
  /\ IF NotReady(predictor, train_data)
     THEN /\ response' = [path |-> "/predict", item |-> item_name, status_code |-> 503,
                          body |-> [detail |-> "Service initializing"]]
          /\ UNCHANGED predict_calls
     ELSE /\ predict_calls < MaxCalls
          /\ predict_calls' = predict_calls + 1
          /\ LET frame == backend_dir.forecast
                 formatted_predictions == FormatPredictions(frame, item_name)
             IN response' =
                  IF item_name \notin ForecastItems(frame)
                  THEN [path |-> "/predict", item |-> item_name, status_code |-> 404,
                        body |-> [detail |-> "not found",
                                  available_items |-> ForecastItems(frame)]]
                  ELSE [path |-> "/predict", item |-> item_name, status_code |-> 200,
                        body |-> [item |-> item_name,
                                  predictions |-> formatted_predictions,
                                  forecast_horizon |-> Horizon(formatted_predictions)]]
  /\ UNCHANGED <<predictor, train_data, startup, backend_dir, startup_error, loads,
                 evalVars, runVars, splitVars, frontendVars, fetchVars>>

BackendNext ==
  \/ startup_event
  \/ root
  \/ get_items
  \/ \E item_name \in RequestNames : predict(item_name)

BackendSpec == BackendInit /\ [][BackendNext]_vars

\* The train/test split, as evaluate.py makes it and as the training script
\* makes it, on one data file and one test_size_days.
MaxDates == 3
MaxDays == 4

\* the data files: any rows of two items on the dates, every sales value 1
Datasets == UNION {[S -> {1}] : S \in SUBSET ({"A", "B"} \X (1..MaxDates))}

\* evaluate.py line 70
TrainFrame(df, n) ==
  [k \in {x \in DOMAIN df : x[2] \notin LastDates(df, n)} |-> df[k]]

\* 1. train.py lines 74-75: all_dates[-test_size_days:], the whole of it for 0
Train_LastDates(df, n) ==
  LET all_dates == SortedSeq({k[2] : k \in DOMAIN df})
      from == IF n = 0 \/ n >= Len(all_dates) THEN 1 ELSE Len(all_dates) - n + 1
  IN {all_dates[i] : i \in from..Len(all_dates)}

\* 1. train.py line 77: test_df = df.reset_index()
Train_TestFrame(df, n) == df

\* 1. train.py line 78
Train_TrainFrame(df, n) ==
  [k \in {x \in DOMAIN df : x[2] \notin Train_LastDates(df, n)} |-> df[k]]

SplitInit ==
  /\ dataset \in Datasets
  /\ test_size_days \in 0..MaxDays
  /\ eval_split = NoSplit
  /\ train_split = NoSplit
  /\ EvalIdle
  /\ RunsIdle
  /\ BackendIdle
  /\ FrontendIdle
  /\ FetchIdle

\* evaluate.py lines 60-73
evaluate_split ==
  /\ ~eval_split.done
  /\ eval_split' = [done |-> TRUE,
                    train_df |-> TrainFrame(dataset, test_size_days),
                    test_df |-> TestFrame(dataset, test_size_days)]
  /\ UNCHANGED <<dataset, test_size_days, train_split>>
  /\ UNCHANGED <<evalVars, runVars, backendVars, frontendVars, fetchVars>>

\* 1. train.py lines 68-81
train_script_split ==
  /\ ~train_split.done
  /\ train_split' = [done |-> TRUE,
                     train_df |-> Train_TrainFrame(dataset, test_size_days),
                     test_df |-> Train_TestFrame(dataset, test_size_days)]
  /\ UNCHANGED <<dataset, test_size_days, eval_split>>
  /\ UNCHANGED <<evalVars, runVars, backendVars, frontendVars, fetchVars>>

SplitNext ==
  \/ evaluate_split
  \/ train_script_split

SplitSpec == SplitInit /\ [][SplitNext]_vars

\* The Streamlit frontend: one press of the button, lines 163-170, with
\* whatever the request of line 45 meets.
MaxMembers == 2

\* lines 20-26
ITEMS ==
  {"BLACK VELVET", "FIREBALL CINNAMON WHISKEY", "HAWKEYE VODKA",
   "TITOS HANDMADE VODKA", "FIVE O'CLOCK VODKA"}

\* the status codes the branches of lines 50-60 tell apart, and one more
StatusCodes == {200, 404, 503, 500}

\* the text of a response body, token by token
Token(t, k, v) == [tok |-> t, key |-> k, value |-> v]
Open == Token("{", "", "")
Close == Token("}", "", "")
Null == Token("null", "", "")
Html == Token("<html>", "", "")
MemberSeqs ==
  UNION {[1..n -> {Token("member", k, v) : k \in {"item", "predictions"},
                                           v \in {"x", "y"}}] :
           n \in 0..MaxMembers}

Texts ==
  {<<Open>> \o ms \o <<Close>> : ms \in MemberSeqs}
    \cup {<<Open>> \o ms : ms \in MemberSeqs}
    \cup {<<Null>>, <<Html>>, <<>>}

\* the exceptions of requests that line 45 or line 51 can raise, each with
\* the classes it is an instance of
ExceptionClasses ==
  {"ConnectionError", "Timeout", "ConnectTimeout", "ReadTimeout",
   "JSONDecodeError", "InvalidURL"}

Ancestors(class) ==
  {class, "RequestException", "Exception"}
    \cup (IF class = "ConnectTimeout" THEN {"ConnectionError", "Timeout"} ELSE {})
    \cup (IF class = "ReadTimeout" THEN {"Timeout"} ELSE {})

Replies ==
  {[kind |-> "response", status_code |-> c, text |-> t, class |-> ""] :
     c \in StatusCodes, t \in Texts}
    \cup {[kind |-> "exception", status_code |-> 0, text |-> <<>>, class |-> e] :
            e \in ExceptionClasses \ {"JSONDecodeError"}}

\* response.json(), line 51: whether the text is a JSON document
Decodable(text) ==
  \/ text = <<Null>>
  \/ /\ Len(text) >= 2
     /\ text[1] = Open
     /\ text[Len(text)] = Close
     /\ \A i \in 2..(Len(text) - 1) : text[i].tok = "member"

\* response.json(), line 51: null is None, an object is a dict in which the
\* last member of a name wins
Json(text) ==
  IF text = <<Null>> THEN NoneResult
  ELSE LET at == 2..(Len(text) - 1)
           last(k) == CHOOSE i \in at :
                        /\ text[i].key = k
                        /\ \A j \in at : text[j].key = k => j <= i
       IN [none |-> FALSE,
           value |-> [k \in {text[i].key : i \in at} |-> text[last(k)].value]]

\* Handlers gone wrong: no except Exception at line 76
Handlers_NoCatchAll == <<"ConnectionError", "Timeout">>

\* the except clauses of lines 62, 72 and 76, in their order
Handlers == <<"ConnectionError", "Timeout", "Exception">>

\* the exception raised inside the try of lines 44-60, "" if none
Raised(rep) ==
  IF rep.kind = "exception" THEN rep.class
  ELSE IF rep.status_code = 200 /\ ~Decodable(rep.text) THEN "JSONDecodeError"
  ELSE ""

\* the first except clause that matches, 0 if none does
Handler(class) ==
  LET matching == {i \in 1..Len(Handlers) : Handlers[i] \in Ancestors(class)}
  IN IF matching = {} THEN 0
     ELSE CHOOSE i \in matching : \A j \in matching : i <= j

\* what lines 53-77 put on the page
Shown(rep) ==
  IF Raised(rep) # ""
  THEN IF Handler(Raised(rep)) = 0 THEN {}
       ELSE {<<"error", Handlers[Handler(Raised(rep))]>>}
  ELSE IF rep.status_code = 200 THEN {}
  ELSE IF rep.status_code = 404 THEN {<<"error", "not found">>}
  ELSE IF rep.status_code = 503 THEN {<<"warning", "starting up">>}
  ELSE {<<"error", "Server error">>}

\* the value of the call at line 166
Returned(rep) ==
  IF Raised(rep) = "" /\ rep.status_code = 200 THEN Json(rep.text) ELSE NoneResult

\* if result:, line 168
Truthy(r) == ~r.none /\ DOMAIN r.value # {}

\* lines 168-175: the success message and the table, each reading its key
Displayed(r) ==
  IF ~Truthy(r) THEN {}
  ELSE IF "item" \notin DOMAIN r.value THEN {<<"exception", "KeyError">>}
  ELSE IF "predictions" \notin DOMAIN r.value
       THEN {<<"success", r.value["item"]>>, <<"exception", "KeyError">>}
  ELSE {<<"success", r.value["item"]>>, <<"dataframe", r.value["predictions"]>>}

FrontendInit ==
  /\ selected \in ITEMS
  /\ reply = NoReply
  /\ result = NoneResult
  /\ st_messages = {}
  /\ escaped = ""
  /\ EvalIdle
  /\ RunsIdle
  /\ BackendIdle
  /\ SplitIdle
  /\ FetchIdle

\* line 156: another product is chosen, the script runs again with no button
\* pressed and the page is empty
selectbox(item_name) ==
  /\ item_name # selected
  /\ selected' = item_name
  /\ reply' = NoReply
  /\ result' = NoneResult
  /\ st_messages' = {}
  /\ escaped' = ""
  /\ UNCHANGED <<evalVars, runVars, backendVars, splitVars, fetchVars>>

\* lines 29-78 as called at line 166 for the chosen product, and what lines
\* 168-175 make of the result
get_predictions(item_name, rep) ==
  /\ item_name = selected
  /\ reply' = rep
  /\ escaped' = IF Raised(rep) # "" /\ Handler(Raised(rep)) = 0 THEN Raised(rep)
                ELSE ""
  /\ result' = Returned(rep)
  /\ st_messages' = IF escaped' # "" THEN {<<"exception", escaped'>>}
                    ELSE Shown(rep) \cup Displayed(result')
  /\ UNCHANGED selected
  /\ UNCHANGED <<evalVars, runVars, backendVars, splitVars, fetchVars>>

FrontendNext ==
  \/ \E item_name \in ITEMS : selectbox(item_name)
  \/ \E rep \in Replies : get_predictions(selected, rep)

FrontendSpec == FrontendInit /\ [][FrontendNext]_vars

\* The fetch scripts, 0. fetch_data.py of 3. advanced and of
\* 2. production_ready: one run of one of them, on some configuration, with
\* some files in place and some answer of BigQuery.
MaxRows == 2
MaxAge == 3
MaxCacheDays == 2
AgeUnitsPerDay == 2
DefaultCacheDays == 7

\* a row of the query's result: date, item_name, total_amount_sold, each
\* possibly missing
FetchRow(d, i, v) == [date |-> d, item_name |-> i, total_amount_sold |-> v]
NoName == [null |-> TRUE, name |-> ""]
Name(x) == [null |-> FALSE, name |-> x]

\* sound rows, and rows with one flaw each
FetchRows ==
  {FetchRow(FromInt(1), Name("A"), FromInt(0)),
   FetchRow(FromInt(1), Name("A"), FromInt(1)),
   FetchRow(None, Name("A"), FromInt(1)),
   FetchRow(FromInt(1), NoName, FromInt(1)),
   FetchRow(FromInt(1), Name("A"), None),
   FetchRow(FromInt(1), Name("A"), FromInt(-1))}

\* bigquery.Client raises, client.query raises, or the query returns rows
QueryResults ==
  {[raises |-> r, rows |-> <<>>] : r \in {"client", "query"}}
    \cup {[raises |-> "", rows |-> rows] :
            rows \in UNION {[1..n -> FetchRows] : n \in 0..MaxRows}}

\* config/config.toml: dry_run and cache_max_age_days may be left out
FetchConfigs ==
  [script : {"advanced", "production_ready"},
   dry_run_key : BOOLEAN, dry_run : BOOLEAN,
   cache_key : BOOLEAN, cache_max_age_days : 0..MaxCacheDays]

\* advanced line 31
DRY_RUN(cfg) == IF cfg.dry_run_key THEN cfg.dry_run ELSE FALSE

\* advanced line 38
CacheMaxAgeDays(cfg) ==
  IF cfg.cache_key THEN cfg.cache_max_age_days ELSE DefaultCacheDays

\* advanced lines 63-64: the age in days, of a file whose age is counted in
\* parts of a day
FileAgeDays(file) == Num(file.age, AgeUnitsPerDay)

\* the comparison gone wrong: a file as old as the limit is fresh
IsFresh_Inclusive(file_age_days, cache_max_age_days) ==
  RatLeq(file_age_days, FromInt(cache_max_age_days))

\* advanced line 70
IsFresh(file_age_days, cache_max_age_days) ==
  RatLess(file_age_days, FromInt(cache_max_age_days))

\* validation gone wrong: no check of the sign
Validate_NoSignCheck(df) ==
  IF Len(df) = 0 THEN "ERROR: Query returned no data"
  ELSE IF \E i \in 1..Len(df) : df[i].date.null THEN "ERROR: Found missing dates"
  ELSE IF \E i \in 1..Len(df) : df[i].item_name.null
       THEN "ERROR: Found missing item names"
  ELSE IF \E i \in 1..Len(df) : df[i].total_amount_sold.null
       THEN "ERROR: Found missing sales values"
  ELSE ""

\* advanced lines 105-109, production_ready lines 73-77: the message of the
\* first assertion that fails, "" if none does
Validate(df) ==
  IF Len(df) = 0 THEN "ERROR: Query returned no data"
  ELSE IF \E i \in 1..Len(df) : df[i].date.null THEN "ERROR: Found missing dates"
  ELSE IF \E i \in 1..Len(df) : df[i].item_name.null
       THEN "ERROR: Found missing item names"
  ELSE IF \E i \in 1..Len(df) : df[i].total_amount_sold.null
       THEN "ERROR: Found missing sales values"
  ELSE IF ~(\A i \in 1..Len(df) : RatLeq(FromInt(0), df[i].total_amount_sold))
       THEN "ERROR: Found negative sales values"
  ELSE ""

\* df.to_csv(output_file, index=False): the header, then a line for each row,
\* a missing value written as the empty field
CsvField(v) == IF v.null THEN [empty |-> TRUE, num |-> 0, den |-> 1]
               ELSE [empty |-> FALSE, num |-> v.num, den |-> v.den]
CsvLine(row) ==
  [date |-> CsvField(row.date),
   item_name |-> IF row.item_name.null THEN "" ELSE row.item_name.name,
   total_amount_sold |-> CsvField(row.total_amount_sold)]
HeaderLine == [date |-> CsvField(None), item_name |-> "item_name",
               total_amount_sold |-> CsvField(None)]
ToCsv(df) == <<HeaderLine>> \o [i \in 1..Len(df) |-> CsvLine(df[i])]

\* advanced lines 120-179, in part: the rows, the products, the missing and
\* the negative values counted
generate_data_quality_report(df) ==
  [num_rows |-> Len(df),
   products |-> {df[i].item_name : i \in 1..Len(df)},
   missing_values |->
     [date |-> Cardinality({i \in 1..Len(df) : df[i].date.null}),
      item_name |-> Cardinality({i \in 1..Len(df) : df[i].item_name.null}),
      total_amount_sold |->
        Cardinality({i \in 1..Len(df) : df[i].total_amount_sold.null})],
   negative_values |->
     Cardinality({i \in 1..Len(df) :
                    RatLess(df[i].total_amount_sold, FromInt(0))})]

\* the files an earlier run left
OldCsv == ToCsv(<<FetchRow(FromInt(1), Name("B"), FromInt(1))>>)
OldReport == <<generate_data_quality_report(<<FetchRow(FromInt(1), Name("B"), FromInt(1))>>)>>

\* a file's modification time is not later than the clock
OutputFiles ==
  {NoFile} \cup {[exists |-> TRUE, age |-> a, content |-> OldCsv] : a \in 0..MaxAge}
ReportFiles == {NoFile, [exists |-> TRUE, age |-> 0, content |-> OldReport]}

FetchInit ==
  /\ fetch_config \in FetchConfigs
  /\ fs \in [output : OutputFiles, report : ReportFiles]
  /\ bigquery \in QueryResults
  /\ fetch_pc = IF fetch_config.script = "advanced" THEN "cache" ELSE "query"
  /\ queries = 0
  /\ fetch_error = NoError
  /\ fetched = <<>>
  /\ EvalIdle
  /\ RunsIdle
  /\ BackendIdle
  /\ SplitIdle
  /\ FrontendIdle

\* advanced lines 61-77
CheckCache ==
  /\ fetch_pc = "cache"
  /\ fetch_pc' =
       IF /\ fs.output.exists
          /\ IsFresh(FileAgeDays(fs.output), CacheMaxAgeDays(fetch_config))
       THEN "exit_cached"
       ELSE "dry_run"
  /\ UNCHANGED <<fetch_config, fs, bigquery, queries, fetch_error, fetched>>
  /\ UNCHANGED <<evalVars, runVars, backendVars, splitVars, frontendVars>>

\* advanced lines 79-88
CheckDryRun ==
  /\ fetch_pc = "dry_run"
  /\ fetch_pc' = IF DRY_RUN(fetch_config) THEN "exit_dry_run" ELSE "query"
  /\ UNCHANGED <<fetch_config, fs, bigquery, queries, fetch_error, fetched>>
  /\ UNCHANGED <<evalVars, runVars, backendVars, splitVars, frontendVars>>

\* advanced lines 95-101 and 210-218, production_ready lines 63-69 and 100-108
ExecuteQuery ==
  /\ fetch_pc = "query"
  /\ IF bigquery.raises = "client"
     THEN /\ fetch_error' = <<"Exception", "client">>
          /\ fetch_pc' = "raised"
          /\ UNCHANGED <<queries, fetched>>
     ELSE IF bigquery.raises = "query"
     THEN /\ queries' = queries + 1
          /\ fetch_error' = <<"Exception", "query">>
          /\ fetch_pc' = "raised"
          /\ UNCHANGED fetched
     ELSE /\ queries' = queries + 1
          /\ fetched' = bigquery.rows
          /\ fetch_pc' = "validate"
          /\ UNCHANGED fetch_error
  /\ UNCHANGED <<fetch_config, fs, bigquery>>
  /\ UNCHANGED <<evalVars, runVars, backendVars, splitVars, frontendVars>>

\* advanced lines 103-115 and 210-218, production_ready lines 71-83 and 100-108
ValidateData ==
  /\ fetch_pc = "validate"
  /\ IF Validate(fetched) # ""
     THEN /\ fetch_error' = <<"AssertionError", Validate(fetched)>>
          /\ fetch_pc' = "raised"
     ELSE /\ fetch_pc' = IF fetch_config.script = "advanced" THEN "report" ELSE "csv"
          /\ UNCHANGED fetch_error
  /\ UNCHANGED <<fetch_config, fs, bigquery, queries, fetched>>
  /\ UNCHANGED <<evalVars, runVars, backendVars, splitVars, frontendVars>>

\* advanced lines 117-199
SaveQualityReport ==
  /\ fetch_pc = "report"
  /\ fs' = [fs EXCEPT !.report =
                        [exists |-> TRUE, age |-> 0,
                         content |-> <<generate_data_quality_report(fetched)>>]]
  /\ fetch_pc' = "csv"
  /\ UNCHANGED <<fetch_config, bigquery, queries, fetch_error, fetched>>
  /\ UNCHANGED <<evalVars, runVars, backendVars, splitVars, frontendVars>>

\* advanced lines 201-203, production_ready lines 85-93
SaveCsv ==
  /\ fetch_pc = "csv"
  /\ fs' = [fs EXCEPT !.output =
                        [exists |-> TRUE, age |-> 0, content |-> ToCsv(fetched)]]
  /\ fetch_pc' = "done"
  /\ UNCHANGED <<fetch_config, bigquery, queries, fetch_error, fetched>>
  /\ UNCHANGED <<evalVars, runVars, backendVars, splitVars, frontendVars>>

FetchNext ==
  \/ CheckCache
  \/ CheckDryRun
  \/ ExecuteQuery
  \/ ValidateData
  \/ SaveQualityReport
  \/ SaveCsv

FetchSpec == FetchInit /\ [][FetchNext]_vars

\* ================================================================== claims
\* What the claims speak of, read off the inputs rather than off the code.
PerProduct == evaluation_results.per_product_metrics
OverallReport == evaluation_results.overall_metrics
Order == UniqueItems(test_df, ItemsOf(test_df))
Visited == ItemsOf(test_df) \ {todo[i] : i \in DOMAIN todo}
Before(p, q) == Index(Order, p) < Index(Order, q)
Diagnosed(p) == \E msg \in {NotFound, NoValidData, CouldNot} : <<p, msg>> \in log

\* the timestamps an item has both an actual and a forecast for
Aligned(p) == {t \in TimesOf(test_df, p) : <<p, t>> \in DOMAIN predictions}
Actual(p, t) == test_df[<<p, t>>]
Err(p, t) == test_df[<<p, t>>] - predictions[<<p, t>>]

RECURSIVE SumFn(_)
SumFn(f) ==
  IF DOMAIN f = {} THEN 0
  ELSE LET x == CHOOSE y \in DOMAIN f : TRUE
       IN f[x] + SumFn([y \in DOMAIN f \ {x} |-> f[y]])

RECURSIVE ProdFn(_)
ProdFn(f) ==
  IF DOMAIN f = {} THEN 1
  ELSE LET x == CHOOSE y \in DOMAIN f : TRUE
       IN f[x] * ProdFn([y \in DOMAIN f \ {x} |-> f[y]])

SumOver(S, F(_)) == SumFn([x \in S |-> F(x)])
ProdOver(S, F(_)) == ProdFn([x \in S |-> F(x)])

N(p) == Cardinality(Aligned(p))
SumAbsErr(p) == SumOver(Aligned(p), LAMBDA t : Abs(Err(p, t)))
SumSqErr(p) == SumOver(Aligned(p), LAMBDA t : Err(p, t) * Err(p, t))

\* the sum of |actual - previous actual| over consecutive aligned timestamps
NaiveSum(p) ==
  SumOver({t \in Aligned(p) : \E u \in Aligned(p) : u < t},
          LAMBDA t : Abs(Actual(p, t) -
                         Actual(p, CHOOSE u \in Aligned(p) :
                                     /\ u < t
                                     /\ \A w \in Aligned(p) : w < t => w <= u)))

Computable(p, m) ==
  CASE m = "MAPE" -> \E t \in Aligned(p) : Actual(p, t) # 0
    [] m = "MASE" -> N(p) >= 2 /\ NaiveSum(p) > 0
    [] OTHER -> TRUE

\* C2: for every non-empty requested set of known metrics and every visited
\* item with an aligned pair, every requested metric besides MASE (whose own
\* value is C4's) has its entry in the item's result, not null whenever it can
\* be computed, whatever becomes of the other metrics.
C2_OtherMetricsStillReported ==
  (metrics_to_calculate # {} /\ metrics_to_calculate \subseteq MetricNames) =>
    \A p \in Visited :
       Aligned(p) # {} =>
         \A m \in metrics_to_calculate \ {"MASE"} :
            /\ p \in DOMAIN PerProduct
            /\ m \in DOMAIN PerProduct[p]
            /\ (Computable(p, m) => ~PerProduct[p][m].null)

\* ---- C3
\* C3: when a name outside {RMSE, MAE, MAPE, MASE} is requested no item is
\* scored and no report is written.
C3_UnknownMetricRejected ==
  UnknownMetric \in metrics_to_calculate =>
    /\ Visited = {}
    /\ call.status = "none"
    /\ DOMAIN PerProduct = {}
    /\ ~report_file.exists

\* ---- C4
\* C4: whenever MASE is requested, every visited item with an aligned pair has
\* a MASE entry: null with fewer than 2 aligned points or a zero mean absolute
\* difference of consecutive aligned actuals, and otherwise
\* (sum |e| / n) / (NaiveSum / (n - 1)).
C4_MASEDefined ==
  "MASE" \in metrics_to_calculate =>
    \A p \in Visited :
       Aligned(p) # {} =>
         /\ p \in DOMAIN PerProduct
         /\ "MASE" \in DOMAIN PerProduct[p]
         /\ LET v == PerProduct[p]["MASE"]
            IN IF N(p) < 2 \/ NaiveSum(p) = 0
               THEN v.null
               ELSE /\ ~v.null
                    /\ v.num * N(p) * NaiveSum(p) = v.den * SumAbsErr(p) * (N(p) - 1)

\* ---- C5
NonZeroAligned(p) == {t \in Aligned(p) : Actual(p, t) # 0}

\* v is 100 * mean(|e_t| / actual_t) over the aligned pairs with a non-zero
\* actual, and null exactly when there is no such pair
MAPEok(p, v) ==
  LET nz == NonZeroAligned(p)
      P == ProdOver(nz, LAMBDA t : Actual(p, t))
  IN IF nz = {} THEN v.null
     ELSE /\ ~v.null
          /\ v.den > 0
          /\ v.num * Cardinality(nz) * P =
               100 * v.den * SumOver(nz, LAMBDA t : Abs(Err(p, t)) * (P \div Actual(p, t)))

\* C5: whenever MAPE is requested, the MAPE a call of calculate_metrics
\* computes, and the MAPE of every recorded item, is 100 times the mean of
\* |actual - forecast| / actual over the aligned pairs with a non-zero actual
\* only, and is null exactly when every aligned actual is zero.
C5_MAPEOverNonZeroActuals ==
  /\ (call.status \in {"returned", "KeyError"} /\ "MAPE" \in metrics_to_calculate) =>
       /\ "MAPE" \in DOMAIN call.metrics
       /\ MAPEok(call.product, call.metrics["MAPE"])
  /\ \A p \in DOMAIN PerProduct :
       IF "MAPE" \in metrics_to_calculate
       THEN "MAPE" \in DOMAIN PerProduct[p] /\ MAPEok(p, PerProduct[p]["MAPE"])
       ELSE "MAPE" \notin DOMAIN PerProduct[p]

\* an item with a zero actual and a non-zero actual among its aligned pairs
\* and a forecast error on the latter was recorded with its MAPE
C5_Witness ==
  \E p \in DOMAIN PerProduct :
     /\ "MAPE" \in DOMAIN PerProduct[p]
     /\ ~PerProduct[p]["MAPE"].null
     /\ PerProduct[p]["MAPE"].num > 0
     /\ \E t \in Aligned(p) : Actual(p, t) = 0 /\ Err(p, t) # 0
     /\ \E t \in Aligned(p) : Actual(p, t) # 0

\* ---- C6
\* C6: the rows calculate_metrics scores are exactly the timestamps present in
\* both the item's actuals and its forecast, each with that timestamp's actual
\* and forecast; with at least one such pair the call yields a result, whose
\* MAE is the mean over exactly these pairs.
C6_InnerJoinOnTimestamp ==
  call.status # "none" =>
    LET p == call.product
    IN /\ DOMAIN call.merged = Aligned(p)
       /\ \A t \in DOMAIN call.merged :
            /\ call.merged[t].actual = test_df[<<p, t>>]
            /\ call.merged[t].mean = predictions[<<p, t>>]
       /\ (Aligned(p) # {} <=> call.status # "None")
       /\ "MAE" \in DOMAIN call.metrics =>
            call.metrics["MAE"].num * N(p) = call.metrics["MAE"].den * SumAbsErr(p)

\* an item with a forecast timestamp that has no actual, an actual timestamp
\* that has no forecast and two aligned pairs was scored and recorded
C6_Witness ==
  /\ call.status = "returned"
  /\ call.product \in DOMAIN PerProduct
  /\ "MAE" \in DOMAIN call.metrics
  /\ \E t \in TimesOf(predictions, call.product) : t \notin TimesOf(test_df, call.product)
  /\ \E t \in TimesOf(test_df, call.product) : t \notin TimesOf(predictions, call.product)
  /\ N(call.product) >= 2

\* ---- C7
MAEok(p, v) ==
  /\ ~v.null
  /\ v.den > 0
  /\ v.num * N(p) = v.den * SumAbsErr(p)

\* v is the square root of (sum e^2) / n on the grid: v = k / SqrtScale with
\* k^2 <= (sum e^2) / n * SqrtScale^2 < (k + 1)^2, so v^2 = (sum e^2) / n
\* whenever that root lies on the grid
RMSEok(p, v) ==
  /\ ~v.null
  /\ v.den > 0
  /\ SqrtScale % v.den = 0
  /\ LET k == v.num * (SqrtScale \div v.den)
     IN /\ k * k * N(p) <= SumSqErr(p) * SqrtScale * SqrtScale
        /\ SumSqErr(p) * SqrtScale * SqrtScale < (k + 1) * (k + 1) * N(p)

IsExample(p) ==
  /\ Slice(test_df, p) = (1 :> 10) @@ (2 :> 12) @@ (3 :> 9)
  /\ Slice(predictions, p) = (1 :> 11) @@ (2 :> 11) @@ (3 :> 10)

\* C7: for every item with n >= 1 aligned pairs, the MAE a call of
\* calculate_metrics computes when MAE is requested is (sum |e_i|) / n and the
\* RMSE it computes when RMSE is requested is the root of (sum e_i^2) / n; the
\* recorded values are these; actuals 10, 12, 9 against forecasts 11, 11, 10
\* give MAE = 1 and RMSE = 1.
C7_MAEAndRMSE ==
  /\ call.status \in {"returned", "KeyError"} =>
       /\ N(call.product) >= 1
       /\ ("MAE" \in metrics_to_calculate) = ("MAE" \in DOMAIN call.metrics)
       /\ ("RMSE" \in metrics_to_calculate) = ("RMSE" \in DOMAIN call.metrics)
       /\ "MAE" \in DOMAIN call.metrics => MAEok(call.product, call.metrics["MAE"])
       /\ "RMSE" \in DOMAIN call.metrics => RMSEok(call.product, call.metrics["RMSE"])
       /\ ("MAE" \in DOMAIN call.metrics /\ IsExample(call.product)) =>
            call.metrics["MAE"] = FromInt(1)
       /\ ("RMSE" \in DOMAIN call.metrics /\ IsExample(call.product)) =>
            call.metrics["RMSE"] = FromInt(1)
  /\ \A p \in DOMAIN PerProduct :
       /\ N(p) >= 1
       /\ "MAE" \in DOMAIN PerProduct[p] => MAEok(p, PerProduct[p]["MAE"])
       /\ "RMSE" \in DOMAIN PerProduct[p] => RMSEok(p, PerProduct[p]["RMSE"])

\* the example of the claim was scored with both metrics requested
C7_Witness ==
  \E p \in DOMAIN PerProduct :
     /\ IsExample(p)
     /\ {"MAE", "RMSE"} \subseteq DOMAIN PerProduct[p]
     /\ PerProduct[p]["MAE"] = FromInt(1)
     /\ PerProduct[p]["RMSE"] = FromInt(1)
     /\ Err(p, 1) = -1 /\ Err(p, 2) = 1 /\ Err(p, 3) = -1

\* ---- C8
\* the items whose recorded value of metric m is not null
Contributors(m) ==
  {p \in DOMAIN PerProduct : m \in DOMAIN PerProduct[p] /\ ~PerProduct[p][m].null}

RECURSIVE RatSumFn(_)
RatSumFn(f) ==
  IF DOMAIN f = {} THEN FromInt(0)
  ELSE LET x == CHOOSE y \in DOMAIN f : TRUE
       IN RatAdd(f[x], RatSumFn([y \in DOMAIN f \ {x} |-> f[y]]))

ValueSum(m) == RatSumFn([p \in Contributors(m) |-> PerProduct[p][m]])
IsLeast(m, v) ==
  /\ \E p \in Contributors(m) : PerProduct[p][m] = v
  /\ \A p \in Contributors(m) : RatLeq(v, PerProduct[p][m])
IsGreatest(m, v) ==
  /\ \E p \in Contributors(m) : PerProduct[p][m] = v
  /\ \A p \in Contributors(m) : RatLeq(PerProduct[p][m], v)

Aggregated == pc \in {"save", "plots", "done"}

\* C8: the values the aggregation reads for a requested metric are exactly the
\* non-null values of that metric in the per-item report, one per contributing
\* item; once aggregated, the overall report has an entry for exactly the
\* requested metrics with at least one such value, computed over them, and no
\* entry of any kind for the others.
C8_AggregateOverNonNull ==
  /\ \A m \in metrics_to_calculate :
       /\ Len(all_metrics[m]) = Cardinality(Contributors(m))
       /\ {all_metrics[m][i] : i \in DOMAIN all_metrics[m]} =
            {PerProduct[p][m] : p \in Contributors(m)}
       /\ SumSeq(all_metrics[m]) = ValueSum(m)
  /\ ~Aggregated => DOMAIN OverallReport = {}
  /\ Aggregated =>
       /\ DOMAIN OverallReport = {m \in metrics_to_calculate : Contributors(m) # {}}
       /\ \A m \in DOMAIN OverallReport :
            /\ RatMul(OverallReport[m].mean, FromInt(Cardinality(Contributors(m)))) =
                 ValueSum(m)
            /\ IsLeast(m, OverallReport[m].min)
            /\ IsGreatest(m, OverallReport[m].max)
  /\ report_file.exists =>
       DOMAIN report_file.content.overall_metrics =
         {m \in metrics_to_calculate : Contributors(m) # {}}

\* a report was written in which one requested metric is null for one item and
\* not for another, and has its entry, and a second requested metric is null
\* for every item, and has none
C8_Witness ==
  /\ report_file.exists
  /\ \E m \in metrics_to_calculate, k \in metrics_to_calculate :
       /\ \E p \in DOMAIN PerProduct :
            m \in DOMAIN PerProduct[p] /\ PerProduct[p][m].null
       /\ Contributors(m) # {}
       /\ m \in DOMAIN report_file.content.overall_metrics
       /\ DOMAIN PerProduct # {}
       /\ \A p \in DOMAIN PerProduct :
            k \in DOMAIN PerProduct[p] /\ PerProduct[p][k].null
       /\ k \notin DOMAIN report_file.content.overall_metrics

\* ---- C9
Variance(m) ==
  LET n == Cardinality(Contributors(m))
      mu == RatDiv(ValueSum(m), FromInt(n))
  IN RatDiv(RatSumFn([p \in Contributors(m) |->
                        RatMul(RatSub(PerProduct[p][m], mu), RatSub(PerProduct[p][m], mu))]),
            FromInt(n))

\* v is the square root of q on the grid
RootOnGrid(v, q) ==
  /\ v.den > 0
  /\ SqrtScale % v.den = 0
  /\ LET k == v.num * (SqrtScale \div v.den)
     IN /\ k >= 0
        /\ k * k * q.den <= q.num * SqrtScale * SqrtScale
        /\ q.num * SqrtScale * SqrtScale < (k + 1) * (k + 1) * q.den

\* C9: for each metric of the overall report, mean is the arithmetic mean of
\* the contributing per-item values, std their population standard deviation
\* (divided by N), min and max the least and the greatest of them, so
\* min <= mean <= max; with exactly one contributing value v, mean = v,
\* std = 0 and min = max = v.
C9_OverallStatistics ==
  \A m \in DOMAIN OverallReport :
     LET o == OverallReport[m]
         n == Cardinality(Contributors(m))
     IN /\ n >= 1
        /\ o.mean = RatDiv(ValueSum(m), FromInt(n))
        /\ RootOnGrid(o.std, Variance(m))
        /\ IsLeast(m, o.min)
        /\ IsGreatest(m, o.max)
        /\ RatLeq(o.min, o.mean) /\ RatLeq(o.mean, o.max)
        /\ n = 1 =>
             \A p \in Contributors(m) :
                /\ o.mean = PerProduct[p][m]
                /\ o.std = FromInt(0)
                /\ o.min = PerProduct[p][m] /\ o.max = PerProduct[p][m]

\* an overall report with a metric two items contribute different values to
\* (its std is not 0) and a metric exactly one item contributes to
C9_Witness ==
  /\ \E m \in DOMAIN OverallReport :
       /\ Cardinality(Contributors(m)) >= 2
       /\ OverallReport[m].std.num > 0
       /\ RatLess(OverallReport[m].min, OverallReport[m].mean)
       /\ RatLess(OverallReport[m].mean, OverallReport[m].max)
  /\ \E m \in DOMAIN OverallReport :
       /\ Cardinality(Contributors(m)) = 1
       /\ OverallReport[m].mean.num > 0

\* ---- C10
FiniteNonNegative(v) == v.null \/ (v.den > 0 /\ v.num >= 0)

\* C10: every metric value of every item that is present and not null, in the
\* report being assembled, in the report written and in the result of every
\* call, is a finite number >= 0.
C10_ValuesFiniteNonNegative ==
  /\ \A p \in DOMAIN PerProduct :
       \A m \in DOMAIN PerProduct[p] : FiniteNonNegative(PerProduct[p][m])
  /\ \A m \in DOMAIN call.metrics : FiniteNonNegative(call.metrics[m])
  /\ report_file.exists =>
       \A p \in DOMAIN report_file.content.per_product_metrics :
          \A m \in DOMAIN report_file.content.per_product_metrics[p] :
             FiniteNonNegative(report_file.content.per_product_metrics[p][m])

\* a written report holds an item with all four metrics, none null, whose
\* forecast lies above its actuals somewhere
C10_Witness ==
  /\ report_file.exists
  /\ \E p \in DOMAIN report_file.content.per_product_metrics :
       /\ DOMAIN report_file.content.per_product_metrics[p] = MetricNames
       /\ \A m \in MetricNames : ~report_file.content.per_product_metrics[p][m].null
       /\ \A m \in MetricNames : report_file.content.per_product_metrics[p][m].num > 0
       /\ \A t \in Aligned(p) : Err(p, t) <= 0

\* ---- C11
\* C11: in the report written, the entry of every item holds one value for
\* each requested metric, a number or an explicit null; a metric that cannot
\* be computed is null, never left out.
C11_EveryRequestedMetricHasValue ==
  report_file.exists =>
    \A p \in DOMAIN report_file.content.per_product_metrics :
       LET entry == report_file.content.per_product_metrics[p]
       IN /\ DOMAIN entry = metrics_to_calculate
          /\ \A m \in DOMAIN entry : entry[m].null \/ entry[m].den > 0
          /\ \A m \in DOMAIN entry \cap MetricNames :
               ~Computable(p, m) => entry[m].null

\* ---- C14
\* C14, for the forecast: when there are actuals and the forecast holds no
\* row for any item, the run is aborted: it does not reach its end and no
\* report is written.
C14_NoDataIsFatal ==
  (DOMAIN test_df # {} /\ DOMAIN predictions = {}) =>
    /\ ~report_file.exists
    /\ pc \notin {"plots", "done"}

\* ---- C17
\* whether item p is reported, read off its own rows and the configuration
Reported(p) ==
  /\ Aligned(p) # {}
  /\ metrics_to_calculate \cap MetricNames # {}
  /\ ~ /\ "MASE" \in metrics_to_calculate
       /\ "MAE" \notin metrics_to_calculate
       /\ N(p) >= 2
       /\ NaiveSum(p) > 0

MASEok(p, v) ==
  IF N(p) < 2 \/ NaiveSum(p) = 0
  THEN v.null
  ELSE /\ ~v.null
       /\ v.den > 0
       /\ v.num * N(p) * NaiveSum(p) = v.den * SumAbsErr(p) * (N(p) - 1)

\* v is the value of metric m that item p's own rows determine
OwnValue(p, m, v) ==
  CASE m = "RMSE" -> RMSEok(p, v)
    [] m = "MAE" -> MAEok(p, v)
    [] m = "MAPE" -> MAPEok(p, v)
    [] m = "MASE" -> MASEok(p, v)

C18_AggregateAfterAllThenWrite ==
  /\ pc \in {"scoring", "save", "plots", "done"}
  /\ pc = "scoring" => DOMAIN OverallReport = {} /\ ~report_file.exists
  /\ Aggregated =>
       /\ todo = <<>>
       /\ Visited = ItemsOf(test_df)
       /\ OverallReport = OverallMetrics(all_metrics)
       /\ \A m \in metrics_to_calculate :
            Len(all_metrics[m]) = Cardinality(Contributors(m))
  /\ report_file.exists <=> pc \in {"plots", "done"}
  /\ report_file.exists => report_file.content = evaluation_results

\* a run over several items ended: each was visited, two contribute to an
\* aggregate, and the report written holds that aggregate
C18_Witness ==
  /\ pc = "done"
  /\ Cardinality(ItemsOf(test_df)) >= 3
  /\ \E m \in DOMAIN report_file.content.overall_metrics :
       Cardinality(Contributors(m)) >= 2

\* ---- C19
Loaded == ~predictor.none /\ ~train_data.none

\* C19: while the predictor or the training data is not loaded, the last
\* answer to GET /predict is 503 and predictor.predict has never been called;
\* while the training data is not loaded the last answer to GET /items is 503;
\* the training data is never loaded with the predictor unset.
C19_NotLoadedIs503 ==
  /\ ~Loaded =>
       /\ response.path = "/predict" => response.status_code = 503
       /\ predict_calls = 0
  /\ train_data.none =>
       (response.path = "/items" => response.status_code = 503)
  /\ ~(predictor.none /\ ~train_data.none)
  /\ startup = "done" <=> Loaded

\* the startup loaded the predictor and failed on the data: GET /predict was
\* answered 503 and the predictor was not called
C19_Witness ==
  /\ ~predictor.none /\ train_data.none
  /\ startup = "failed"
  /\ response.path = "/predict" /\ response.status_code = 503
  /\ predict_calls = 0

\* ---- C20
\* the answer to GET /predict/{item} the forecast frame determines
RightAnswer(r) ==
  LET frame == backend_dir.forecast
      stamps == {k[2] : k \in {x \in DOMAIN frame : x[1] = r.item}}
  IN /\ r.status_code \in {200, 404}
     /\ r.status_code = 404 <=> r.item \notin ForecastItems(frame)
     /\ r.status_code = 200 =>
          /\ r.body.item = r.item
          /\ Len(r.body.predictions) = Cardinality(stamps)
          /\ {r.body.predictions[i].timestamp : i \in DOMAIN r.body.predictions} = stamps
          /\ \A i \in DOMAIN r.body.predictions, j \in DOMAIN r.body.predictions :
               i < j => StampLess(r.body.predictions[i].timestamp,
                                  r.body.predictions[j].timestamp)
          /\ \A i \in DOMAIN r.body.predictions :
               LET e == r.body.predictions[i]
               IN e.mean = frame[<<r.item, e.timestamp>>] /\ e.date = e.timestamp[1]
          /\ r.body.forecast_horizon = Len(r.body.predictions)

\* C20: every GET /predict/{item_name} handled once the backend is loaded is
\* answered 404 exactly when item_name is not an item of the predictions, and
\* otherwise with the item name, one entry for each forecast timestamp of the
\* item in ascending order, and forecast_horizon the number of entries.
C20_PredictAnswer ==
  [][(Loaded /\ predict_calls' # predict_calls) =>
       /\ response'.path = "/predict"
       /\ RightAnswer(response')]_vars

\* a loaded backend answered with two entries of one day for an item, another
\* requested name not being forecast
C20_Witness ==
  /\ Loaded
  /\ response.path = "/predict" /\ response.status_code = 200
  /\ response.body.forecast_horizon = 2
  /\ response.body.predictions[1].date = response.body.predictions[2].date
  /\ response.body.predictions[1].mean # response.body.predictions[2].mean
  /\ \E n \in BackendItems : n \notin ForecastItems(backend_dir.forecast)

\* ---- C12
\* C12: what a reader of the report path reads is a complete report, the one
\* of some run that reached the write: never an empty or a half-written
\* document.
C12_ReaderSeesCompleteReport ==
  reader.read => \E i \in DOMAIN history : reader.document = history[i].document

\* ---- C13
Last(seq) == seq[Len(seq)]

\* the items of the actuals the run of a history entry scored
ScoredFrame(h) == TestFrame(h.inputs[2].df, h.inputs[1].test_size_days)

\* C13: outside the write itself, the file holds nothing before the first run
\* reaches the write and from then on exactly the document of the most recent
\* run that reached it: its five members, its items among those of that run's
\* actuals, nothing of an earlier report; once written, the report object of
\* the run stays as it was written.
C13_SinkHoldsLatestReport ==
  /\ (pc # "writing" /\ history = <<>>) => disk = <<>>
  /\ (pc # "writing" /\ history # <<>>) =>
       /\ disk = Last(history).document
       /\ Len(disk) = 5
       /\ DOMAIN disk[4][2] \subseteq ItemsOf(ScoredFrame(Last(history)))
       /\ disk[3][2] = ConfiguredMetrics(Last(history).inputs[1])
       /\ disk[1][2] = Last(history).run
  /\ pc \in {"writing", "plots", "done"} =>
       /\ Last(history).run = runs
       /\ Last(history).results = evaluation_results
       /\ Last(history).document = Document(evaluation_results, evaluated_at, config)
  /\ \A i \in DOMAIN history, j \in DOMAIN history : i < j => history[i].run < history[j].run

\* a second report replaced a first one that held an item the second does
\* not hold, and a run that was aborted after it left it in place
C13_Witness ==
  /\ pc = "aborted"
  /\ Len(history) = 2
  /\ runs = 3
  /\ \E p \in DOMAIN history[1].document[4][2] : p \notin DOMAIN disk[4][2]
  /\ disk = history[2].document

\* ---- C15
\* C15: a run whose configuration lacks a required key is aborted by the
\* KeyError of the reading: it has loaded neither model nor data, has scored
\* no item, and the report path holds what it held before the run.
C15_MissingFieldAborts ==
  (RequiredFields \ config.fields # {} /\ pc # "config") =>
    /\ pc = "aborted"
    /\ error = "KeyError"
    /\ loaded = {}
    /\ DOMAIN test_df = {} /\ DOMAIN predictions = {}
    /\ call = NoCall /\ product = ""
    /\ DOMAIN PerProduct = {}
    /\ \A i \in DOMAIN history : history[i].run < runs
    /\ disk = IF history = <<>> THEN <<>> ELSE Last(history).document

\* a run with a required key missing was aborted after a run that had
\* written its report
C15_Witness ==
  /\ RequiredFields \ config.fields # {}
  /\ pc = "aborted"
  /\ error = "KeyError"
  /\ history # <<>>
  /\ disk = Last(history).document
  /\ DOMAIN disk[4][2] # {}

\* ---- C16
\* C16: any two runs that reached the write with the same configuration, the
\* same data and the same forecast wrote documents that differ in their
\* evaluated_at member alone, whatever ran between them.
C16_SameInputsSameReport ==
  \A i \in DOMAIN history, j \in DOMAIN history :
     history[i].inputs = history[j].inputs =>
       /\ history[i].document[1][1] = "evaluated_at"
       /\ Tail(history[i].document) = Tail(history[j].document)
       /\ history[i].results = history[j].results

\* the same run was made twice with a different run between them, whose
\* report holds other items
C16_Witness ==
  /\ Len(history) = 3
  /\ history[1].inputs = history[3].inputs
  /\ history[1].inputs # history[2].inputs
  /\ history[1].document[1] # history[3].document[1]
  /\ \E p \in DOMAIN history[2].document[4][2] : p \notin DOMAIN history[1].document[4][2]
  /\ DOMAIN history[1].document[4][2] # {}
  /\ pc = "done"

\* ----------------------------------------------------------------- C21
\* C21: predictor and train_data are assigned by the startup handler alone:
\* every step that is not the startup handler's, whichever request it serves
\* and in whatever order the requests come, leaves both as they were, and
\* loads neither the model nor the data.
C21_OnlyStartupAssigns ==
  [][~(startup = "pending" /\ startup' # "pending")
       => UNCHANGED <<predictor, train_data, loads>>]_vars

\* the limit of predict calls served, an items request after them, and the
\* one load of each made at startup
C21_Witness ==
  /\ Loaded
  /\ predict_calls = MaxCalls
  /\ response.path = "/items"
  /\ train_data.items = BackendItems
  /\ loads = [model |-> 1, data |-> 1]

\* ----------------------------------------------------------------- C22
\* C22: when the model directory or the data file is missing, the startup
\* handler ends in a RuntimeError, the one about the model directory if that
\* is missing, nothing has been loaded, and predictor and train_data are unset.
C22_MissingPathIsRuntimeError ==
  (startup # "pending" /\ (~backend_dir.model_path \/ ~backend_dir.data_path))
    => /\ startup = "failed"
       /\ startup_error = IF ~backend_dir.model_path THEN ModelDirNotFound
                          ELSE DataFileNotFound
       /\ loads = NoLoads
       /\ predictor.none
       /\ train_data.none

\* both are missing and the error is the one of the model directory
C22_Witness ==
  /\ ~backend_dir.model_path
  /\ ~backend_dir.data_path
  /\ startup = "failed"
  /\ startup_error = ModelDirNotFound
  /\ predictor.none

\* ----------------------------------------------------------------- C25
\* the rows of a frame
Rows(df) == DOMAIN df

\* C25: on the same data and the same test_size_days the evaluation script and
\* the training script split alike: the same training rows and the same test
\* rows.
C25_SameSplitAsTraining ==
  (eval_split.done /\ train_split.done)
    => /\ Rows(eval_split.train_df) = Rows(train_split.train_df)
       /\ Rows(eval_split.test_df) = Rows(train_split.test_df)

\* ----------------------------------------------------------------- C26
\* the distinct dates of the data, and the n latest of them
DistinctDates == {k[2] : k \in Rows(dataset)}
Min(a, b) == IF a <= b THEN a ELSE b
Latest(n) ==
  {d \in DistinctDates : Cardinality({e \in DistinctDates : e > d}) < n}

\* C26: the test rows of evaluate.py are the rows dated within the last
\* min(test_size_days, D) distinct dates, the training rows are all the others,
\* the two share no row and together are the data.
C26_TestIsLastDates ==
  eval_split.done
    => LET last == Latest(Min(test_size_days, Cardinality(DistinctDates)))
       IN /\ Rows(eval_split.test_df) = {k \in Rows(dataset) : k[2] \in last}
          /\ Rows(eval_split.train_df) = {k \in Rows(dataset) : k[2] \notin last}
          /\ Rows(eval_split.test_df) \cap Rows(eval_split.train_df) = {}
          /\ Rows(eval_split.test_df) \cup Rows(eval_split.train_df) = Rows(dataset)

\* ----------------------------------------------------------------- C23
\* the backend answered 200 with a body that decodes
Answered == reply.kind = "response" /\ reply.status_code = 200 /\ Decodable(reply.text)

\* C23: no exception leaves get_predictions; it returns the decoded body when
\* the backend answered 200 with a body that decodes, and None in every other
\* case: 404, 503, another status, a connection error, a timeout, any other
\* exception.
C23_NeverRaises ==
  reply # NoReply
    => /\ escaped = ""
       /\ Answered => result = Json(reply.text)
       /\ ~Answered => result = NoneResult

\* status 200 with a body that does not decode: None, and the error of the
\* last except clause on the page
C23_Witness ==
  /\ reply.kind = "response"
  /\ reply.status_code = 200
  /\ reply.text = <<Open, Token("member", "item", "x")>>
  /\ result = NoneResult
  /\ escaped = ""
  /\ <<"error", "Exception">> \in st_messages

\* ----------------------------------------------------------------- C24
\* read off the configuration and the files: the run is of the advanced
\* script, dry_run is set, the output file is there and younger than
\* cache_max_age_days (7 where the configuration has none)
Advanced == fetch_config.script = "advanced"
DryRunSet == fetch_config.dry_run_key /\ fetch_config.dry_run
MaxAgeInUnits ==
  AgeUnitsPerDay * (IF fetch_config.cache_key THEN fetch_config.cache_max_age_days
                    ELSE DefaultCacheDays)
CachedFresh == fs.output.exists /\ fs.output.age < MaxAgeInUnits

\* C24: the advanced script executes the query only when the output file is
\* absent or at least cache_max_age_days old and dry_run is false; with a
\* fresh file or with dry_run true it goes to its exit, executes no query and
\* leaves every file as it is; with cache_max_age_days = 0 a file that exists
\* never counts as fresh.
C24_QueryOnlyWhenStaleAndNotDryRun ==
  [][Advanced =>
       /\ queries' # queries => (~CachedFresh /\ ~DryRunSet)
       /\ (CachedFresh \/ DryRunSet)
            => /\ queries' = queries
               /\ fs' = fs
               /\ fetch_pc' \in {"dry_run", "exit_cached", "exit_dry_run"}
               /\ fetch_pc = "dry_run" => fetch_pc' = "exit_dry_run"
               /\ CachedFresh => fetch_pc' = "exit_cached"
       /\ (fs.output.exists /\ fetch_config.cache_key
            /\ fetch_config.cache_max_age_days = 0)
            => fetch_pc' # "exit_cached"]_vars

\* cache_max_age_days = 0 and the file of an earlier run, written this very
\* moment: the query has been executed
C24_Witness ==
  /\ Advanced
  /\ fetch_config.cache_key
  /\ fetch_config.cache_max_age_days = 0
  /\ ~DryRunSet
  /\ fs.output = [exists |-> TRUE, age |-> 0, content |-> OldCsv]
  /\ queries = 1
  /\ fetch_pc = "validate"

\* ----------------------------------------------------------------- C27
\* the downloaded data is sound: a row at least, nothing missing, no
\* negative sales value
PassesValidation(df) ==
  /\ Len(df) >= 1
  /\ \A i \in 1..Len(df) :
       /\ ~df[i].date.null
       /\ ~df[i].item_name.null
       /\ ~df[i].total_amount_sold.null
       /\ df[i].total_amount_sold.num >= 0

\* C27: a fetch script changes a file, the output CSV or the data quality
\* report, only with downloaded data that passed validation; once data
\* that fails it has been validated, the run has ended in the AssertionError.
C27_WriteOnlyValidated ==
  [][/\ fs' # fs => (bigquery.raises = "" /\ fetched = bigquery.rows
                      /\ PassesValidation(fetched))
     /\ (fetch_pc = "validate" /\ ~PassesValidation(fetched))
          => /\ fetch_pc' = "raised"
             /\ fetch_error'[1] = "AssertionError"
             /\ fs' = fs]_vars

\* a negative sales value among sound rows, in either script: the run ended
\* in the error and the files are those of the earlier run
C27_Witness ==
  /\ fetch_pc = "raised"
  /\ fetch_error = <<"AssertionError", "ERROR: Found negative sales values">>
  /\ Len(fetched) = MaxRows
  /\ fs.output.content = OldCsv
  /\ fs.report.content = OldReport

====
